---- MODULE Spec2Model ----
(***************************************************************************)
(* Chrome Agent pipeline (chrome_agent_pipeline.py): classification of a   *)
(* user message as a browser task and its single dispatch to the backend.  *)
(*                                                                         *)
(* A Python str is a sequence of one-character strings.  A character       *)
(* outside ASCII is written as its code point, "U+8BBF" for the character  *)
(* U+8BBF, so that the module reads the same under every file encoding.    *)
(***************************************************************************)
EXTENDS Integers, Sequences, FiniteSets, TLC

VARIABLES valves, pc, user_message, url, selector, task_type, requests,
          response, result, fault

vars == <<valves, pc, user_message, url, selector, task_type, requests,
          response, result, fault>>

\* None, for the optional strings url and selector (a match is never empty).
None == <<>>

\* ------------------------------------------------------------------------
\* String literals of the source.

\* browser_keywords, lines 29-35

browser_keywords ==
  <<
    <<"U+6253", "U+5F00", "U+7F51", "U+9875">>,
    <<"U+6253", "U+5F00", "U+7F51", "U+7AD9">>,
    <<"U+8BBF", "U+95EE">>,
    <<"U+6D4F", "U+89C8">>,
    <<"U+7F51", "U+9875">>,
    <<"U+7F51", "U+7AD9">>,
    <<"U+63D0", "U+53D6", "U+6570", "U+636E">>,
    <<"U+6293", "U+53D6">>,
    <<"U+722C", "U+53D6">>,
    <<"U+83B7", "U+53D6", "U+5185", "U+5BB9">>,
    <<"U+622A", "U+56FE">>,
    <<"U+70B9", "U+51FB">>,
    <<"U+8F93", "U+5165">>,
    <<"U+641C", "U+7D22">>,
    <<"U+586B", "U+5199", "U+8868", "U+5355">>,
    <<"U+4E0B", "U+8F7D">>,
    <<"o", "p", "e", "n", " ", "w", "e", "b", "s", "i", "t", "e">>,
    <<"v", "i", "s", "i", "t">>,
    <<"b", "r", "o", "w", "s", "e">>,
    <<"e", "x", "t", "r", "a", "c", "t">>,
    <<"s", "c", "r", "a", "p", "e">>,
    <<"c", "l", "i", "c", "k">>,
    <<"i", "n", "p", "u", "t">>,
    <<"s", "e", "a", "r", "c", "h">>,
    <<"s", "c", "r", "e", "e", "n", "s", "h", "o", "t">>
  >>

\* line 61
extract_keywords ==
  <<
    <<"U+63D0", "U+53D6">>,
    <<"U+6293", "U+53D6">>,
    <<"U+83B7", "U+53D6">>,
    <<"e", "x", "t", "r", "a", "c", "t">>,
    <<"s", "c", "r", "a", "p", "e">>
  >>

\* line 110
SELECTOR_WORD_ZH == <<"U+9009", "U+62E9", "U+5668">>
SELECTOR_WORD_EN == <<"s", "e", "l", "e", "c", "t", "o", "r">>

\* lines 67, 69, 71
MSG_CONNECTION_ERROR == <<"U+274C", " ", "U+65E0", "U+6CD5", "U+8FDE", "U+63A5", "U+5230", " ", "C", "h", "r", "o", "m", "e", " ", "A", "g", "e", "n", "t", " ", "U+670D", "U+52A1", "U+5668", "U+FF0C", "U+8BF7", "U+786E", "U+4FDD", "U+670D", "U+52A1", "U+6B63", "U+5728", "U+8FD0", "U+884C">>
MSG_TIMEOUT == <<"U+23F1", "U+FE0F", " ", "U+8BF7", "U+6C42", "U+8D85", "U+65F6", "U+FF0C", "U+4EFB", "U+52A1", "U+53EF", "U+80FD", "U+9700", "U+8981", "U+66F4", "U+957F", "U+65F6", "U+95F4", "U+6267", "U+884C">>
MSG_FAILED_PREFIX == <<"U+274C", " ", "U+6267", "U+884C", "U+5931", "U+8D25", ":", " ">>

\* lines 78, 118, 120
VISIT_PREFIX == <<"U+8BBF", "U+95EE", " ">>
VISIT_THEN == <<" ", "U+7136", "U+540E", " ">>
SELECTOR_SUFFIX == <<"U+FF0C", "U+4F7F", "U+7528", "U+9009", "U+62E9", "U+5668", ":", " ">>

\* lines 81, 83
MODEL_NAME == <<"c", "h", "r", "o", "m", "e", "-", "a", "g", "e", "n", "t", "-", "v", "1">>
ROLE_USER == <<"u", "s", "e", "r">>

\* lines 98-103
GENERAL_DEFAULT_CONTENT == <<"U+4EFB", "U+52A1", "U+5DF2", "U+5B8C", "U+6210">>
GENERAL_OK_HEADER == <<"U+2705", " ", "U+4EFB", "U+52A1", "U+6267", "U+884C", "U+5B8C", "U+6210", "\n", "\n">>
GENERAL_FORMAT_ERROR == <<"U+274C", " ", "U+4EFB", "U+52A1", "U+6267", "U+884C", "U+5931", "U+8D25", "\n", "\n", "U+54CD", "U+5E94", "U+683C", "U+5F0F", "U+5F02", "U+5E38">>

\* lines 143-148
EXTRACT_DEFAULT_CONTENT == <<"U+6570", "U+636E", "U+63D0", "U+53D6", "U+5B8C", "U+6210">>
EXTRACT_OK_HEADER == <<"U+2705", " ", "U+6570", "U+636E", "U+63D0", "U+53D6", "U+5B8C", "U+6210", "\n", "\n">>
EXTRACT_FORMAT_ERROR == <<"U+274C", " ", "U+6570", "U+636E", "U+63D0", "U+53D6", "U+5931", "U+8D25", "\n", "\n", "U+54CD", "U+5E94", "U+683C", "U+5F0F", "U+5F02", "U+5E38">>
SERVER_ERROR_PREFIX == <<"U+274C", " ", "U+670D", "U+52A1", "U+5668", "U+9519", "U+8BEF", " ", "(">>
SERVER_ERROR_MID == <<")", ":", " ">>

\* lines 9, 89
DEFAULT_URL == <<"h", "t", "t", "p", ":", "/", "/", "l", "o", "c", "a", "l", "h", "o", "s", "t", ":", "3", "0", "0", "0">>
ENDPOINT_PATH == <<"/", "a", "p", "i", "/", "v", "1", "/", "c", "h", "a", "t", "/", "c", "o", "m", "p", "l", "e", "t", "i", "o", "n", "s">>

\* str(None) and the str(e) of the exceptions the response handling raises
NONE_STR == <<"N", "o", "n", "e">>
DETAIL_JSON == <<"E", "x", "p", "e", "c", "t", "i", "n", "g", " ", "v", "a", "l", "u", "e", ":", " ", "l", "i", "n", "e", " ", "1", " ", "c", "o", "l", "u", "m", "n", " ", "1", " ", "(", "c", "h", "a", "r", " ", "0", ")">>
DETAIL_NO_GET_PRE == <<"'">>
DETAIL_NO_GET_POST == <<"'", " ", "o", "b", "j", "e", "c", "t", " ", "h", "a", "s", " ", "n", "o", " ", "a", "t", "t", "r", "i", "b", "u", "t", "e", " ", "'", "g", "e", "t", "'">>
DETAIL_NO_LEN_PRE == <<"o", "b", "j", "e", "c", "t", " ", "o", "f", " ", "t", "y", "p", "e", " ", "'">>
DETAIL_NO_LEN_POST == <<"'", " ", "h", "a", "s", " ", "n", "o", " ", "l", "e", "n", "(", ")">>
DETAIL_KEY == <<"0">>
DETAIL_REDIRECTS == <<"E", "x", "c", "e", "e", "d", "e", "d", " ", "3", "0", " ", "r", "e", "d", "i", "r", "e", "c", "t", "s", ".">>

\* ------------------------------------------------------------------------
\* Inputs: the messages a caller sends and the bodies the backend answers.

\* Example messages and texts.
EX_CHAT == <<"j", "u", "s", "t", " ", "c", "h", "a", "t", "t", "i", "n", "g", ",", " ", "h", "o", "w", " ", "a", "r", "e", " ", "y", "o", "u">>
EX_CLICK == <<"U+6253", "U+5F00", "U+7F51", "U+9875", " ", "h", "t", "t", "p", "s", ":", "/", "/", "a", ".", "c", "o", "m", " ", "U+5E76", "U+70B9", "U+51FB", "U+6309", "U+94AE">>
EX_TITLE == <<"U+6293", "U+53D6", " ", "h", "t", "t", "p", "s", ":", "/", "/", "e", "x", "a", "m", "p", "l", "e", ".", "c", "o", "m", " ", "U+7684", "U+6807", "U+9898">>
EX_SELECTOR == <<"e", "x", "t", "r", "a", "c", "t", " ", "h", "t", "t", "p", "s", ":", "/", "/", "a", ".", "c", "o", "m", " ", "s", "e", "l", "e", "c", "t", "o", "r", " ", "\"", "h", "1", ".", "t", "i", "t", "l", "e", "\"">>
EX_NOQUOTE == <<"e", "x", "t", "r", "a", "c", "t", " ", "h", "t", "t", "p", "s", ":", "/", "/", "a", ".", "c", "o", "m", " ", "s", "e", "l", "e", "c", "t", "o", "r", " ", "h", "1", ".", "t", "i", "t", "l", "e">>
EX_TAB == <<"s", "e", "e", " ", "h", "t", "t", "p", "s", ":", "/", "/", "b", ".", "c", "\t", "p", "l", "e", "a", "s", "e">>
EX_CLICKED == <<"C", "l", "i", "c", "k", "e", "d">>
EX_INTERNAL == <<"i", "n", "t", "e", "r", "n", "a", "l", " ", "e", "r", "r", "o", "r">>

\* Pieces of message text; a message is a concatenation of at most MaxParts
\* of them.
Fragments ==
  <<
    <<" ">>,
    <<"C", "L", "I", "C", "K">>,
    <<"U+83B7", "U+53D6", "U+9009", "U+62E9", "U+5668">>,
    <<"E", "x", "t", "r", "a", "c", "t">>,
    <<"h", "t", "t", "p", ":", "/", "/", "a">>,
    <<"S", "e", "l", "e", "c", "t", "o", "r">>,
    <<"\"", "h", "1", "\"">>,
    <<"'", "p", "\"">>
  >>

\* Response bodies: the raw text and what json.loads makes of it
\* ("invalid": the text is not JSON).  A JSON value is [t |-> type, v |-> value].
Bodies ==
  <<
    \* internal error
    [text |-> <<"i", "n", "t", "e", "r", "n", "a", "l", " ", "e", "r", "r", "o", "r">>,
     json |-> [t |-> "invalid", v |-> 0]],
    \* (empty body)
    [text |-> <<>>,
     json |-> [t |-> "invalid", v |-> 0]],
    \* null
    [text |-> <<"n", "u", "l", "l">>,
     json |-> [t |-> "null", v |-> 0]],
    \* [1]
    [text |-> <<"[", "1", "]">>,
     json |-> [t |-> "arr", v |-> <<[t |-> "num", v |-> 1]>>]],
    \* {}
    [text |-> <<"{", "}">>,
     json |-> [t |-> "obj", v |-> <<>>]],
    \* {"choices":null}
    [text |-> <<"{", "\"", "c", "h", "o", "i", "c", "e", "s", "\"", ":", "n", "u", "l", "l", "}">>,
     json |-> [t |-> "obj", v |-> [choices |-> [t |-> "null", v |-> 0]]]],
    \* {"choices":[]}
    [text |-> <<"{", "\"", "c", "h", "o", "i", "c", "e", "s", "\"", ":", "[", "]", "}">>,
     json |-> [t |-> "obj", v |-> [choices |-> [t |-> "arr", v |-> <<>>]]]],
    \* {"choices":5}
    [text |-> <<"{", "\"", "c", "h", "o", "i", "c", "e", "s", "\"", ":", "5", "}">>,
     json |-> [t |-> "obj", v |-> [choices |-> [t |-> "num", v |-> 5]]]],
    \* {"choices":[{"message":{"content":"Clicked"}}]}
    [text |-> <<"{", "\"", "c", "h", "o", "i", "c", "e", "s", "\"", ":", "[", "{", "\"", "m", "e", "s", "s", "a", "g", "e", "\"", ":", "{", "\"", "c", "o", "n", "t", "e", "n", "t", "\"", ":", "\"", "C", "l", "i", "c", "k", "e", "d", "\"", "}", "}", "]", "}">>,
     json |-> [t |-> "obj", v |-> [choices |-> [t |-> "arr", v |-> <<[t |-> "obj", v |-> [message |-> [t |-> "obj", v |-> [content |-> [t |-> "str", v |-> <<"C", "l", "i", "c", "k", "e", "d">>]]]]]>>]]]],
    \* {"choices":[{"message":{"content":"Clicked"}},{"message":{"content":"Later"}}]}
    [text |-> <<"{", "\"", "c", "h", "o", "i", "c", "e", "s", "\"", ":", "[", "{", "\"", "m", "e", "s", "s", "a", "g", "e", "\"", ":", "{", "\"", "c", "o", "n", "t", "e", "n", "t", "\"", ":", "\"", "C", "l", "i", "c", "k", "e", "d", "\"", "}", "}", ",", "{", "\"", "m", "e", "s", "s", "a", "g", "e", "\"", ":", "{", "\"", "c", "o", "n", "t", "e", "n", "t", "\"", ":", "\"", "L", "a", "t", "e", "r", "\"", "}", "}", "]", "}">>,
     json |-> [t |-> "obj", v |-> [choices |-> [t |-> "arr", v |-> <<[t |-> "obj", v |-> [message |-> [t |-> "obj", v |-> [content |-> [t |-> "str", v |-> <<"C", "l", "i", "c", "k", "e", "d">>]]]]], [t |-> "obj", v |-> [message |-> [t |-> "obj", v |-> [content |-> [t |-> "str", v |-> <<"L", "a", "t", "e", "r">>]]]]]>>]]]],
    \* {"choices":[{"message":{}},{"message":{"content":"Later"}}]}
    [text |-> <<"{", "\"", "c", "h", "o", "i", "c", "e", "s", "\"", ":", "[", "{", "\"", "m", "e", "s", "s", "a", "g", "e", "\"", ":", "{", "}", "}", ",", "{", "\"", "m", "e", "s", "s", "a", "g", "e", "\"", ":", "{", "\"", "c", "o", "n", "t", "e", "n", "t", "\"", ":", "\"", "L", "a", "t", "e", "r", "\"", "}", "}", "]", "}">>,
     json |-> [t |-> "obj", v |-> [choices |-> [t |-> "arr", v |-> <<[t |-> "obj", v |-> [message |-> [t |-> "obj", v |-> <<>>]]], [t |-> "obj", v |-> [message |-> [t |-> "obj", v |-> [content |-> [t |-> "str", v |-> <<"L", "a", "t", "e", "r">>]]]]]>>]]]],
    \* {"choices":[{}]}
    [text |-> <<"{", "\"", "c", "h", "o", "i", "c", "e", "s", "\"", ":", "[", "{", "}", "]", "}">>,
     json |-> [t |-> "obj", v |-> [choices |-> [t |-> "arr", v |-> <<[t |-> "obj", v |-> <<>>]>>]]]],
    \* {"choices":[{"message":{"content":null}}]}
    [text |-> <<"{", "\"", "c", "h", "o", "i", "c", "e", "s", "\"", ":", "[", "{", "\"", "m", "e", "s", "s", "a", "g", "e", "\"", ":", "{", "\"", "c", "o", "n", "t", "e", "n", "t", "\"", ":", "n", "u", "l", "l", "}", "}", "]", "}">>,
     json |-> [t |-> "obj", v |-> [choices |-> [t |-> "arr", v |-> <<[t |-> "obj", v |-> [message |-> [t |-> "obj", v |-> [content |-> [t |-> "null", v |-> 0]]]]]>>]]]],
    \* {"choices":[{"message":null}]}
    [text |-> <<"{", "\"", "c", "h", "o", "i", "c", "e", "s", "\"", ":", "[", "{", "\"", "m", "e", "s", "s", "a", "g", "e", "\"", ":", "n", "u", "l", "l", "}", "]", "}">>,
     json |-> [t |-> "obj", v |-> [choices |-> [t |-> "arr", v |-> <<[t |-> "obj", v |-> [message |-> [t |-> "null", v |-> 0]]]>>]]]],
    \* {"choices":[7,{"message":{"content":"Later"}}]}
    [text |-> <<"{", "\"", "c", "h", "o", "i", "c", "e", "s", "\"", ":", "[", "7", ",", "{", "\"", "m", "e", "s", "s", "a", "g", "e", "\"", ":", "{", "\"", "c", "o", "n", "t", "e", "n", "t", "\"", ":", "\"", "L", "a", "t", "e", "r", "\"", "}", "}", "]", "}">>,
     json |-> [t |-> "obj", v |-> [choices |-> [t |-> "arr", v |-> <<[t |-> "num", v |-> 7], [t |-> "obj", v |-> [message |-> [t |-> "obj", v |-> [content |-> [t |-> "str", v |-> <<"L", "a", "t", "e", "r">>]]]]]>>]]]]
  >>

\* ------------------------------------------------------------------------
\* Python str operations.

UPPER == <<"A", "B", "C", "D", "E", "F", "G", "H", "I", "J", "K", "L", "M", "N", "O", "P", "Q", "R", "S", "T", "U", "V", "W", "X", "Y", "Z">>
LOWER == <<"a", "b", "c", "d", "e", "f", "g", "h", "i", "j", "k", "l", "m", "n", "o", "p", "q", "r", "s", "t", "u", "v", "w", "x", "y", "z">>

\* str.lower() of one character: an upper-case letter becomes its lower-case
\* letter, every other character of the model's alphabet is unchanged.
LowerChar(c) ==
  IF \E i \in 1..Len(UPPER) : UPPER[i] = c
  THEN LOWER[CHOOSE i \in 1..Len(UPPER) : UPPER[i] = c]
  ELSE c

\* s.lower()
lower(s) == [i \in 1..Len(s) |-> LowerChar(s[i])]

\* sub in s
Contains(s, sub) ==
  \E i \in 1..(Len(s) - Len(sub) + 1) : SubSeq(s, i, i + Len(sub) - 1) = sub

\* any(keyword in s for keyword in keywords)
AnyKeywordIn(s, keywords) ==
  \E k \in 1..Len(keywords) : Contains(s, keywords[k])

\* The characters \s matches.
IsSpace(c) == c \in {" ", "\t", "\n", "\r", "\f"}

IsQuote(c) == c \in {"\"", "'"}

\* s[i:].startswith(p)
StartsAt(s, i, p) ==
  /\ i + Len(p) - 1 <= Len(s)
  /\ SubSeq(s, i, i + Len(p) - 1) = p

\* ------------------------------------------------------------------------
\* re.search(r'https?://[^\s]+', s)

\* The index after "http://" or "https://" when one of them starts at i, else 0.
SchemeEnd(s, i) ==
  IF StartsAt(s, i, <<"h", "t", "t", "p", "s", ":", "/", "/">>) THEN i + 8
  ELSE IF StartsAt(s, i, <<"h", "t", "t", "p", ":", "/", "/">>) THEN i + 7
  ELSE 0

\* [^\s]+ is greedy: the last index of the run of non-space characters that
\* starts at j.
RECURSIVE NonSpaceRunEnd(_, _)
NonSpaceRunEnd(s, j) ==
  IF j < Len(s) /\ ~IsSpace(s[j + 1]) THEN NonSpaceRunEnd(s, j + 1) ELSE j

\* The match that starts at i, or None.
UrlMatchAt(s, i) ==
  LET j == SchemeEnd(s, i) IN
    IF j # 0 /\ j <= Len(s) /\ ~IsSpace(s[j])
    THEN SubSeq(s, i, NonSpaceRunEnd(s, j))
    ELSE None

\* The search tries the start positions from left to right.
RECURSIVE UrlSearchFrom(_, _)
UrlSearchFrom(s, i) ==
  IF i > Len(s) THEN None
  ELSE IF UrlMatchAt(s, i) # None THEN UrlMatchAt(s, i)
  ELSE UrlSearchFrom(s, i + 1)

\* url_match.group(0) if url_match else None
url_search(s) == UrlSearchFrom(s, 1)

\* ------------------------------------------------------------------------
\* re.search(r'["\']([^"\']+)["\']', s)

RECURSIVE NonQuoteRunEnd(_, _)
NonQuoteRunEnd(s, j) ==
  IF j < Len(s) /\ ~IsQuote(s[j + 1]) THEN NonQuoteRunEnd(s, j + 1) ELSE j

\* group(1) of the match that starts at i, or None: a quote character, one or
\* more characters that are not quotes, a quote character.
SelectorMatchAt(s, i) ==
  IF /\ IsQuote(s[i])
     /\ i + 1 <= Len(s)
     /\ ~IsQuote(s[i + 1])
     /\ NonQuoteRunEnd(s, i + 1) < Len(s)
  THEN SubSeq(s, i + 1, NonQuoteRunEnd(s, i + 1))
  ELSE None

RECURSIVE SelectorSearchFrom(_, _)
SelectorSearchFrom(s, i) ==
  IF i > Len(s) THEN None
  ELSE IF SelectorMatchAt(s, i) # None THEN SelectorMatchAt(s, i)
  ELSE SelectorSearchFrom(s, i + 1)

\* selector_match.group(1) if selector_match else None
selector_search(s) == SelectorSearchFrom(s, 1)

\* ------------------------------------------------------------------------
\* JSON values as Python sees them.

JNull == [t |-> "null", v |-> 0]
JStr(s) == [t |-> "str", v |-> s]
JEmptyDict == [t |-> "obj", v |-> <<>>]

\* bool(j)
Truthy(j) ==
  CASE j.t = "null" -> FALSE
    [] j.t = "bool" -> j.v
    [] j.t = "num" -> j.v # 0
    [] j.t = "str" -> Len(j.v) > 0
    [] j.t = "arr" -> Len(j.v) > 0
    [] j.t = "obj" -> DOMAIN j.v # {}

\* type(j).__name__
PyTypeName(j) ==
  CASE j.t = "null" -> <<"N", "o", "n", "e", "T", "y", "p", "e">>
    [] j.t = "bool" -> <<"b", "o", "o", "l">>
    [] j.t = "num" -> <<"i", "n", "t">>
    [] j.t = "str" -> <<"s", "t", "r">>
    [] j.t = "arr" -> <<"l", "i", "s", "t">>
    [] j.t = "obj" -> <<"d", "i", "c", "t">>

DIGITS == <<"0", "1", "2", "3", "4", "5", "6", "7", "8", "9">>

\* str(n) of a natural number
RECURSIVE IntStr(_)
IntStr(n) ==
  IF n < 10 THEN <<DIGITS[n + 1]>>
  ELSE IntStr(n \div 10) \o <<DIGITS[(n % 10) + 1]>>

\* What an f-string makes of {j}: a str as it is, None as "None", a number
\* in decimal.  (The bodies of the model hold no other type of content.)
PyStr(j) ==
  CASE j.t = "str" -> j.v
    [] j.t = "null" -> NONE_STR
    [] j.t = "num" -> IntStr(j.v)
    [] j.t = "bool" -> IF j.v THEN <<"T", "r", "u", "e">> ELSE <<"F", "a", "l", "s", "e">>

\* d.get(key, default), d a dict
DictGet(d, key, default) ==
  IF key \in DOMAIN d.v THEN d.v[key] ELSE default

\* ------------------------------------------------------------------------
\* How a call ends: it returns a str or it raises an exception.

Return(s) == [kind |-> "return", value |-> s, type |-> "", detail |-> <<>>]
Raise(type, detail) == [kind |-> "raise", value |-> <<>>, type |-> type, detail |-> detail]

AttributeError(j) ==
  Raise("AttributeError", DETAIL_NO_GET_PRE \o PyTypeName(j) \o DETAIL_NO_GET_POST)

\* The classes of the exceptions, each with its base classes:
\* requests.exceptions.ConnectTimeout derives from ConnectionError and from
\* Timeout, ReadTimeout from Timeout alone.
Bases(type) ==
  CASE type = "ConnectionError" -> {"ConnectionError", "RequestException", "Exception"}
    [] type = "ConnectTimeout" -> {"ConnectTimeout", "ConnectionError", "Timeout", "RequestException", "Exception"}
    [] type = "ReadTimeout" -> {"ReadTimeout", "Timeout", "RequestException", "Exception"}
    [] type = "TooManyRedirects" -> {"TooManyRedirects", "RequestException", "Exception"}
    [] type = "JSONDecodeError" -> {"JSONDecodeError", "InvalidJSONError", "RequestException", "ValueError", "Exception"}
    [] type = "AttributeError" -> {"AttributeError", "Exception"}
    [] type = "TypeError" -> {"TypeError", "Exception"}
    [] type = "KeyError" -> {"KeyError", "LookupError", "Exception"}

\* isinstance(e, cls)
IsInstance(type, cls) == cls \in Bases(type)

\* The exceptions requests.post raises in the model: the connection is
\* refused, the deadline expires while connecting, the deadline expires while
\* the response is awaited, and one failure of another kind.
PostExceptions ==
  << Raise("ConnectionError", <<>>),
     Raise("ConnectTimeout", <<>>),
     Raise("ReadTimeout", <<>>),
     Raise("TooManyRedirects", DETAIL_REDIRECTS) >>

StatusCodes == {200, 500}

\* ------------------------------------------------------------------------
\* Pipeline.pipe, lines 24-51

\* line 39
has_url(message) == url_search(message) # None


\* Mutant: the auto-detection switch is not consulted.
is_browser_task_ungated(v, message) ==
  \/ AnyKeywordIn(lower(message), browser_keywords)
  \/ has_url(message)

\* Mutant: a keyword and a URL are both required.
is_browser_task_both(v, message) ==
  /\ v.enable_auto_detection
  /\ AnyKeywordIn(lower(message), browser_keywords)
  /\ has_url(message)

\* lines 42-45
is_browser_task(v, message) ==
  /\ v.enable_auto_detection
  /\ \/ AnyKeywordIn(lower(message), browser_keywords)
     \/ has_url(message)

\* ------------------------------------------------------------------------
\* Pipeline._execute_browser_task, lines 53-71

\* lines 57-58
task_url(task) == url_search(task)

\* line 61
is_extract_task(task) == AnyKeywordIn(lower(task), extract_keywords)

task_type_of(task) == IF is_extract_task(task) THEN "extract" ELSE "general"


\* Mutant: the last clause, except Exception, is missing.
except_clauses_no_generic(e) ==
  IF IsInstance(e.type, "ConnectionError") THEN Return(MSG_CONNECTION_ERROR)
  ELSE IF IsInstance(e.type, "Timeout") THEN Return(MSG_TIMEOUT)
  ELSE e

\* lines 66-71: the except clauses, tried in order.  An exception none of
\* them catches propagates to the caller of pipe.
except_clauses(e) ==
  IF IsInstance(e.type, "ConnectionError") THEN Return(MSG_CONNECTION_ERROR)
  ELSE IF IsInstance(e.type, "Timeout") THEN Return(MSG_TIMEOUT)
  ELSE IF IsInstance(e.type, "Exception") THEN Return(MSG_FAILED_PREFIX \o e.detail)
  ELSE e

\* The try statement around an outcome of the body.
try_except(outcome) ==
  IF outcome.kind = "raise" THEN except_clauses(outcome) ELSE outcome

\* ------------------------------------------------------------------------
\* The request, lines 80-92 and 125-137

payload(content) ==
  [model |-> MODEL_NAME,
   messages |-> << [role |-> ROLE_USER, content |-> content] >>,
   stream |-> FALSE]

post_request(v, content) ==
  [url |-> v.chrome_agent_url \o ENDPOINT_PATH,
   json |-> payload(content),
   timeout |-> v.timeout]


\* Mutant: the request is sent a second time.
post_twice(sent, request) == Append(Append(sent, request), request)

\* requests.post is called once: the requests sent so far, and this one.
post(sent, request) == Append(sent, request)

\* ------------------------------------------------------------------------
\* Pipeline._execute_general_task, lines 73-103

\* lines 76-78
full_task(task, u) ==
  IF u # None THEN VISIT_PREFIX \o u \o VISIT_THEN \o task ELSE task


\* Mutant: the last choice is taken.
last_choice(choices) == choices.v[Len(choices.v)]

\* lines 97 and 142: result["choices"][0]
first_choice(choices) == choices.v[1]

\* lines 95-101 and 140-146, the branch of status 200: the two functions map
\* the response the same way, each with its own texts.
map_ok_response(resp, ok_header, default_content, format_error) ==
  IF Bodies[resp.body].json.t = "invalid"
  THEN Raise("JSONDecodeError", DETAIL_JSON)                 \* response.json()
  ELSE LET res == Bodies[resp.body].json IN
    IF res.t # "obj" THEN AttributeError(res)                \* result.get
    ELSE LET choices == DictGet(res, "choices", JNull) IN
      IF ~Truthy(choices) THEN Return(format_error)
      ELSE IF choices.t \in {"num", "bool"}                  \* len(...)
      THEN Raise("TypeError", DETAIL_NO_LEN_PRE \o PyTypeName(choices) \o DETAIL_NO_LEN_POST)
      ELSE IF choices.t = "obj"                              \* [0] of a dict
      THEN Raise("KeyError", DETAIL_KEY)
      ELSE IF choices.t = "str"                              \* [0] is a str
      THEN AttributeError(choices)
      ELSE LET first == first_choice(choices) IN
        IF first.t # "obj" THEN AttributeError(first)        \* .get("message", {})
        ELSE LET message == DictGet(first, "message", JEmptyDict) IN
          IF message.t # "obj" THEN AttributeError(message)  \* message.get
          ELSE Return(ok_header \o PyStr(DictGet(message, "content", JStr(default_content))))


\* Mutant: the body is interpreted whatever the status code is.
map_response_any_status(resp, ok_header, default_content, format_error) ==
  map_ok_response(resp, ok_header, default_content, format_error)

\* lines 94-103 and 139-148
map_response(resp, ok_header, default_content, format_error) ==
  IF resp.status_code = 200
  THEN map_ok_response(resp, ok_header, default_content, format_error)
  ELSE Return(SERVER_ERROR_PREFIX \o IntStr(resp.status_code) \o SERVER_ERROR_MID
              \o Bodies[resp.body].text)

\* lines 94-103
general_response(resp) ==
  map_response(resp, GENERAL_OK_HEADER, GENERAL_DEFAULT_CONTENT, GENERAL_FORMAT_ERROR)

\* ------------------------------------------------------------------------
\* Pipeline._extract_data, lines 106-148

\* lines 109-114
task_selector(task) ==
  IF Contains(task, SELECTOR_WORD_ZH) \/ Contains(lower(task), SELECTOR_WORD_EN)
  THEN selector_search(task)
  ELSE None


\* Mutant: the selector is appended whether or not there is a URL.
extract_task_selector_always(task, u, sel) ==
  (IF u # None THEN VISIT_PREFIX \o u \o VISIT_THEN \o task ELSE task)
  \o (IF sel # None THEN SELECTOR_SUFFIX \o sel ELSE <<>>)

\* lines 117-122
extract_task(task, u, sel) ==
  IF u # None
  THEN VISIT_PREFIX \o u \o VISIT_THEN \o task
       \o (IF sel # None THEN SELECTOR_SUFFIX \o sel ELSE <<>>)
  ELSE task


\* Mutant: the texts of the general task are used.
extract_response_general_texts(resp) == general_response(resp)

\* lines 139-148
extract_response(resp) ==
  map_response(resp, EXTRACT_OK_HEADER, EXTRACT_DEFAULT_CONTENT, EXTRACT_FORMAT_ERROR)

\* ------------------------------------------------------------------------
\* The state machine: one invocation of pipe after another.

MaxParts == 3

RECURSIVE Concatenations(_)
Concatenations(n) ==
  IF n = 0 THEN {<<>>}
  ELSE Concatenations(n - 1)
       \cup {m \o Fragments[k] : m \in Concatenations(n - 1), k \in 1..Len(Fragments)}

Keywords ==
  {browser_keywords[k] : k \in 1..Len(browser_keywords)}
  \cup {extract_keywords[k] : k \in 1..Len(extract_keywords)}

Examples == {EX_CHAT, EX_CLICK, EX_TITLE, EX_SELECTOR, EX_NOQUOTE, EX_TAB}

\* The messages a caller sends.
Messages == Concatenations(MaxParts) \cup Keywords \cup Examples

Valves ==
  {[chrome_agent_url |-> DEFAULT_URL, enable_auto_detection |-> b, timeout |-> 30]
     : b \in BOOLEAN}

NoResponse == [kind |-> "none", type |-> "", status_code |-> 0, body |-> 0]

Init ==
  /\ valves \in Valves
  /\ pc = "idle"
  /\ user_message = <<>>
  /\ url = None
  /\ selector = None
  /\ task_type = "none"
  /\ requests = <<>>
  /\ response = NoResponse
  /\ result = <<>>
  /\ fault = "none"

\* pipe(user_message, ...) up to its return (not a browser task) or up to
\* the call of requests.post (a browser task).
pipe(message) ==
  /\ pc = "idle"
  /\ user_message' = message
  /\ response' = NoResponse
  /\ fault' = "none"
  /\ IF is_browser_task(valves, message)
     THEN /\ url' = task_url(message)
          /\ task_type' = task_type_of(message)
          /\ selector' = IF is_extract_task(message) THEN task_selector(message) ELSE None
          /\ requests' =
               post(<<>>, post_request(valves,
                    IF is_extract_task(message)
                    THEN extract_task(message, task_url(message), task_selector(message))
                    ELSE full_task(message, task_url(message))))
          /\ pc' = "waiting"
          /\ result' = <<>>
     ELSE /\ url' = None
          /\ task_type' = "none"
          /\ selector' = None
          /\ requests' = <<>>
          /\ pc' = "returned"
          /\ result' = message
  /\ UNCHANGED valves

\* The rest of the invocation, from the outcome of the function that called
\* requests.post: _execute_browser_task catches or lets through, pipe returns.
finish(outcome) ==
  /\ pc' = "returned"
  /\ result' = IF try_except(outcome).kind = "return" THEN try_except(outcome).value ELSE <<>>
  /\ fault' = IF try_except(outcome).kind = "raise" THEN try_except(outcome).type ELSE "none"

\* requests.post raises.
post_raises(e) ==
  /\ pc = "waiting"
  /\ response' = [kind |-> "raised", type |-> e.type, status_code |-> 0, body |-> 0]
  /\ finish(e)
  /\ UNCHANGED <<valves, user_message, url, selector, task_type, requests>>

\* requests.post returns a response.
post_returns(status, b) ==
  /\ pc = "waiting"
  /\ response' = [kind |-> "returned", type |-> "", status_code |-> status, body |-> b]
  /\ finish(IF task_type = "extract" THEN extract_response(response')
            ELSE general_response(response'))
  /\ UNCHANGED <<valves, user_message, url, selector, task_type, requests>>

\* The host takes the result (or the fault); nothing of the invocation is
\* kept, and the host may call pipe again.
pipe_returns ==
  /\ pc = "returned"
  /\ pc' = "idle"
  /\ user_message' = <<>>
  /\ url' = None
  /\ selector' = None
  /\ task_type' = "none"
  /\ requests' = <<>>
  /\ response' = NoResponse
  /\ result' = <<>>
  /\ fault' = "none"
  /\ UNCHANGED valves

Next ==
  \/ \E message \in Messages : pipe(message)
  \/ \E k \in 1..Len(PostExceptions) : post_raises(PostExceptions[k])
  \/ \E status \in StatusCodes, b \in 1..Len(Bodies) : post_returns(status, b)
  \/ pipe_returns

Spec == Init /\ [][Next]_vars

\* ------------------------------------------------------------------------
\* What the specification says of a message, stated on the text itself.

\* a and b are the same letter, whatever the case of each.
LetterPairs == {{UPPER[i], LOWER[i]} : i \in 1..Len(UPPER)}

SameLetter(a, b) == a = b \/ {a, b} \in LetterPairs

\* s contains the word w in some letter case.
ContainsAnyCase(s, w) ==
  \E i \in 1..(Len(s) - Len(w) + 1) :
    \A k \in 1..Len(w) : SameLetter(s[i + k - 1], w[k])

HasKeyword(s) ==
  \E k \in 1..Len(browser_keywords) : ContainsAnyCase(s, browser_keywords[k])

HasExtractWord(s) ==
  \E k \in 1..Len(extract_keywords) : ContainsAnyCase(s, extract_keywords[k])

\* A substring matching https?://\S+ starts at i.
UrlStartsAt(s, i) ==
  \E n \in {7, 8} :
    /\ i + n <= Len(s)
    /\ SubSeq(s, i, i + n - 1) \in {<<"h", "t", "t", "p", ":", "/", "/">>,
                                    <<"h", "t", "t", "p", "s", ":", "/", "/">>}
    /\ ~IsSpace(s[i + n])

HasUrl(s) == \E i \in 1..Len(s) : UrlStartsAt(s, i)

\* The first match: it starts at the least such i and runs to the character
\* before the next white space, or to the end of the message.
FirstUrl(s) ==
  LET i == CHOOSE x \in 1..Len(s) :
             UrlStartsAt(s, x) /\ \A y \in 1..(x - 1) : ~UrlStartsAt(s, y)
      e == CHOOSE x \in i..Len(s) :
             /\ \A y \in i..x : ~IsSpace(s[y])
             /\ x = Len(s) \/ IsSpace(s[x + 1])
  IN SubSeq(s, i, e)

\* The message is a browser task.
IsBrowserTask == valves.enable_auto_detection /\ (HasKeyword(user_message) \/ HasUrl(user_message))

\* The invocation has classified its message.
Classified == pc # "idle"

\* The invocation has classified its message and done nothing since: it has
\* returned without a request, or it waits for the answer to its request.
JustClassified == pc = "waiting" \/ (pc = "returned" /\ response.kind = "none")

Content == requests[1].json.messages[1].content

\* ------------------------------------------------------------------------
\* C1: the number of POST requests an invocation of pipe has issued is one
\* when the message is classified as a browser task and zero otherwise, for
\* both kinds of task and whatever the outcome of the call is (a response of
\* any status, an exception of any kind).
C1_ExactlyOneRequest ==
  Classified => Len(requests) = (IF task_type # "none" THEN 1 ELSE 0)

C1_Witness ==
  /\ pc = "returned"
  /\ task_type = "extract"
  /\ response.kind = "raised"
  /\ response.type = "ReadTimeout"
  /\ Len(requests) = 1

\* C2: when auto-detection is off, or the message holds no keyword and no
\* URL, pipe returns the message as it is and issues no request.
C2_Passthrough ==
  (JustClassified /\ ~IsBrowserTask) =>
    /\ pc = "returned"
    /\ result = user_message
    /\ requests = <<>>
    /\ response = NoResponse
    /\ fault = "none"

C2_Witness ==
  /\ pc = "returned"
  /\ ~valves.enable_auto_detection
  /\ HasKeyword(user_message)
  /\ HasUrl(user_message)
  /\ result = user_message

\* C3: with auto-detection on, a message with a keyword in any letter case
\* is dispatched, with or without URL; a message with a URL is dispatched,
\* with or without keyword, and the url used is the first match exactly.
C3_KeywordOrUrlSuffices ==
  (JustClassified /\ valves.enable_auto_detection) =>
    /\ HasKeyword(user_message) => (task_type # "none" /\ Len(requests) = 1)
    /\ HasUrl(user_message) =>
         /\ task_type # "none"
         /\ Len(requests) = 1
         /\ url = FirstUrl(user_message)
         /\ StartsAt(Content, 1, VISIT_PREFIX \o FirstUrl(user_message) \o VISIT_THEN)
    /\ (HasKeyword(user_message) /\ ~HasUrl(user_message)) => url = None

C3_Witness ==
  /\ pc = "waiting"
  /\ ~HasKeyword(user_message)
  /\ HasUrl(user_message)
  /\ url = <<"h", "t", "t", "p", ":", "/", "/", "a">>
  /\ Len(user_message) > 2 * Len(url)

\* C4: whatever the backend does, pipe returns a string and raises nothing
\* to its caller.
C4_NeverRaises ==
  /\ fault = "none"
  /\ (pc = "returned" /\ task_type # "none") => Len(result) > 0

C4_Witness ==
  /\ pc = "returned"
  /\ response.kind = "returned"
  /\ response.status_code = 200
  /\ Bodies[response.body].json.t = "invalid"
  /\ result = MSG_FAILED_PREFIX \o DETAIL_JSON
  /\ fault = "none"

\* C5: when the call exceeds the timeout, while connecting or while awaiting
\* the response, the result is the timeout string; the cannot-connect string
\* is returned only when the connection cannot be established.
C5_TimeoutString ==
  (pc = "returned" /\ response.kind = "raised") =>
    /\ response.type \in {"ConnectTimeout", "ReadTimeout"} => result = MSG_TIMEOUT
    /\ result = MSG_CONNECTION_ERROR => response.type \in {"ConnectionError", "ConnectTimeout"}

C5_Reached ==
  /\ pc = "returned"
  /\ response.kind = "raised"
  /\ response.type = "ConnectTimeout"
  /\ result = MSG_CONNECTION_ERROR

\* ------------------------------------------------------------------------
\* The response, as the claims speak of it.

Answered == pc = "returned" /\ response.kind = "returned"

Json == Bodies[response.body].json

\* The status code in decimal.
StatusDigits(n) ==
  CASE n = 500 -> <<"5", "0", "0">>
    [] n = 404 -> <<"4", "0", "4">>
    [] n = 201 -> <<"2", "0", "1">>

\* The body is a JSON object whose choices is a non-empty sequence, the first
\* choice an object whose message, when it has one, is an object whose
\* content, when it has one, is a string.
HasFirstChoice ==
  /\ Json.t = "obj"
  /\ "choices" \in DOMAIN Json.v
  /\ Json.v.choices.t = "arr"
  /\ Len(Json.v.choices.v) > 0
  /\ Json.v.choices.v[1].t = "obj"
  /\ "message" \in DOMAIN Json.v.choices.v[1].v =>
       /\ Json.v.choices.v[1].v.message.t = "obj"
       /\ "content" \in DOMAIN Json.v.choices.v[1].v.message.v =>
            Json.v.choices.v[1].v.message.v.content.t = "str"

FirstContentMissing ==
  \/ "message" \notin DOMAIN Json.v.choices.v[1].v
  \/ "content" \notin DOMAIN Json.v.choices.v[1].v.message.v

\* The body is a JSON object whose choices is absent, null or empty.
HasNoChoices ==
  /\ Json.t = "obj"
  /\ \/ "choices" \notin DOMAIN Json.v
     \/ Json.v.choices.t = "null"
     \/ Json.v.choices.t = "arr" /\ Len(Json.v.choices.v) = 0

\* C6: for a response whose status is not 200, for both kinds of task and
\* whatever the body holds, the result is the server-error string with the
\* status code and the raw body.
C6_ServerError ==
  (Answered /\ response.status_code # 200) =>
    result = SERVER_ERROR_PREFIX \o StatusDigits(response.status_code)
             \o SERVER_ERROR_MID \o Bodies[response.body].text

C6_Witness ==
  /\ Answered
  /\ task_type = "extract"
  /\ response.status_code = 500
  /\ HasFirstChoice
  /\ result = SERVER_ERROR_PREFIX \o <<"5", "0", "0">> \o SERVER_ERROR_MID \o Bodies[response.body].text

C8_FormatError ==
  (Answered /\ response.status_code = 200 /\ HasNoChoices) =>
    result = (IF HasExtractWord(user_message)
              THEN EXTRACT_FORMAT_ERROR ELSE GENERAL_FORMAT_ERROR)

C8_Witness ==
  /\ Answered
  /\ response.status_code = 200
  /\ Json = JEmptyDict
  /\ HasExtractWord(user_message)
  /\ result = EXTRACT_FORMAT_ERROR

\* C9: the request holds model chrome-agent-v1, stream false and one message
\* of role user.  Its content is, with a URL in the message, the visit-url-
\* then-message string of the first URL and the whole message, the selector
\* suffix appended only for an extraction with a resolved selector; without a
\* URL it is the message as it is, for both kinds of task.
C9_RequestContent ==
  pc = "waiting" =>
    /\ Len(requests) = 1
    /\ requests[1].url = DEFAULT_URL \o ENDPOINT_PATH
    /\ requests[1].json.model = MODEL_NAME
    /\ requests[1].json.stream = FALSE
    /\ Len(requests[1].json.messages) = 1
    /\ requests[1].json.messages[1].role = ROLE_USER
    /\ Content =
         IF HasUrl(user_message)
         THEN VISIT_PREFIX \o FirstUrl(user_message) \o VISIT_THEN \o user_message
              \o (IF HasExtractWord(user_message) /\ selector # None
                  THEN SELECTOR_SUFFIX \o selector ELSE <<>>)
         ELSE user_message

C9_Witness ==
  /\ pc = "waiting"
  /\ user_message = EX_SELECTOR
  /\ selector = <<"h", "1", ".", "t", "i", "t", "l", "e">>
  /\ Content = VISIT_PREFIX \o FirstUrl(user_message) \o VISIT_THEN \o user_message
               \o SELECTOR_SUFFIX \o selector

\* The message holds the trigger word of a selector.
HasSelectorWord(s) ==
  Contains(s, SELECTOR_WORD_ZH) \/ ContainsAnyCase(s, SELECTOR_WORD_EN)

\* The text between the quote at i and the same quote at j.
QuotedBetween(s, i, j) ==
  /\ IsQuote(s[i])
  /\ i + 1 < j
  /\ s[j] = s[i]
  /\ \A k \in (i + 1)..(j - 1) : s[k] # s[i]

HasQuoted(s) == \E i \in 1..Len(s), j \in 1..Len(s) : QuotedBetween(s, i, j)

\* The first substring quoted by matching quotes.
FirstQuoted(s) ==
  LET i == CHOOSE x \in 1..Len(s) :
             /\ \E j \in 1..Len(s) : QuotedBetween(s, x, j)
             /\ \A y \in 1..(x - 1) : ~\E j \in 1..Len(s) : QuotedBetween(s, y, j)
      j == CHOOSE x \in 1..Len(s) : QuotedBetween(s, i, x)
  IN SubSeq(s, i + 1, j - 1)

\* C10: a selector is looked for only in an extraction whose message holds
\* the trigger word; it is then the text of the first substring quoted by
\* matching quotes, and absent when there is none.
C10_MatchingQuotes ==
  (JustClassified /\ task_type # "none") =>
    selector =
      IF /\ HasExtractWord(user_message)
         /\ HasSelectorWord(user_message)
         /\ HasQuoted(user_message)
      THEN FirstQuoted(user_message)
      ELSE None

C10_Reached ==
  /\ pc = "waiting"
  /\ task_type = "extract"
  /\ HasSelectorWord(user_message)
  /\ ~HasQuoted(user_message)
  /\ selector = <<"p">>

====
